---- MODULE Spec2Model ----
(***************************************************************************)
(* Model of the AA_Hisab bookkeeping application: the remote store         *)
(* (gl_headers / gl_transactions), the ledger report screens (General      *)
(* Ledger, Cash Book, Bank Book, Trial Balance) and the Bank Entry /       *)
(* Edit Bank Entry forms.                                                  *)
(*                                                                         *)
(* Amounts are integers (whole currency units).  Dates are integers, in    *)
(* the order of the 'yyyy-MM-dd' strings the code compares.                *)
(***************************************************************************)
EXTENDS Integers, Sequences, FiniteSets, TLC

VARIABLES
    gl_headers,       \* table gl_headers: set of header records
    gl_transactions,  \* table gl_transactions: set of line records
    gl,               \* state of the GeneralLedger component
    book,             \* state of the CashBook / BankBook component
    tb,               \* state of the TrialBalance component
    be,               \* state of the BankEntry form and its handleSubmit
    ed,               \* state of the EditBankEntry form and its handleSubmit
    dash,             \* state of the Dashboard component
    cr,               \* state of the CommissionReport component
    zk,               \* state of the ZakatCalculation component
    glFetch           \* a fetchTransactions call of the General Ledger, request by request

vars == <<gl_headers, gl_transactions, gl, book, tb, be, ed, dash, cr, zk, glFetch>>

(***************************************************************************)
(* Bounds                                                                  *)
(***************************************************************************)
MaxDate == 2      \* transaction dates are 1..MaxDate
NumGroups == 2    \* posting groups in a pre-existing log
MaxHeaders == 1   \* rows of gl_headers the Bank Entry form may create
MaxRequests == 2  \* calls of fetchTransactions during one visit of the Cash Book

Dates == 1..MaxDate

(***************************************************************************)
(* Reference data: chart_of_accounts and currencies                        *)
(***************************************************************************)
\* the accounts with is_active = true
Accounts == {"cash", "bankA", "bankU", "bankE", "exp"}

\* accounts with is_active = false: no selector of a report offers them
InactiveAccounts == {"old"}

\* every row of chart_of_accounts
ChartOfAccounts == Accounts \cup InactiveAccounts

\* accounts with is_cashbook = true
CashBooks == {"cash"}

\* accounts whose subcategory is 'Bank'
BankBooks == {"bankA", "bankU", "bankE"}

\* chart_of_accounts.currency_id
AccountCurrency(a) ==
    CASE a = "bankU" -> "USD"
      [] a = "bankE" -> "EUR"
      [] OTHER -> "AED"

\* currencies.exchange_rate_note ("none" stands for null: the base currency)
ExchangeRateNote(c) ==
    CASE c = "USD" -> "multiply"
      [] c = "EUR" -> "divide"
      [] OTHER -> "none"

Statuses == {"posted", "draft", "void"}

(***************************************************************************)
(* Pre-existing logs.  A log holds up to NumGroups posting groups, each    *)
(* of two lines, of one of the shapes below, on any date, in any status.   *)
(* The fourth shape is a group whose debit and credit totals differ, the   *)
(* last one was posted to an account that is inactive by now.              *)
(***************************************************************************)
Shapes ==
    << [dr |-> "cash",  cr |-> "exp",  debit |-> 2, credit |-> 2, doc |-> 2, cur |-> "AED", rate |-> 1],
       [dr |-> "exp",   cr |-> "cash", debit |-> 1, credit |-> 1, doc |-> 1, cur |-> "AED", rate |-> 1],
       [dr |-> "bankU", cr |-> "exp",  debit |-> 2, credit |-> 2, doc |-> 1, cur |-> "USD", rate |-> 2],
       [dr |-> "cash",  cr |-> "exp",  debit |-> 3, credit |-> 2, doc |-> 3, cur |-> "AED", rate |-> 1],
       [dr |-> "exp",   cr |-> "old",  debit |-> 2, credit |-> 2, doc |-> 2, cur |-> "AED", rate |-> 1] >>

StatusIndex(s) == CASE s = "posted" -> 0 [] s = "draft" -> 1 [] OTHER -> 2

Templates == [shape : 1..Len(Shapes), date : Dates, status : Statuses]

\* a distinct header id for every template
TemplateId(t) == ((t.shape - 1) * MaxDate + (t.date - 1)) * Cardinality(Statuses) + StatusIndex(t.status) + 1

TemplateHeader(t) ==
    [id |-> TemplateId(t), transaction_date |-> t.date, status |-> t.status, type_code |-> "JV"]

TemplateLines(t) ==
    LET s == Shapes[t.shape] IN
    { [id |-> 2 * TemplateId(t), header_id |-> TemplateId(t), account_id |-> s.dr,
       debit |-> s.debit, credit |-> 0,
       debit_doc_currency |-> s.doc, credit_doc_currency |-> 0,
       exchange_rate |-> s.rate, currency_id |-> s.cur],
      [id |-> 2 * TemplateId(t) + 1, header_id |-> TemplateId(t), account_id |-> s.cr,
       debit |-> 0, credit |-> s.credit,
       debit_doc_currency |-> 0, credit_doc_currency |-> s.doc,
       exchange_rate |-> s.rate, currency_id |-> s.cur] }

RECURSIVE LogsUpTo(_)
LogsUpTo(n) ==
    IF n = 0 THEN {{}}
    ELSE LET P == LogsUpTo(n - 1) IN P \cup {p \cup {t} : p \in P, t \in Templates}

Logs == LogsUpTo(NumGroups)

(***************************************************************************)
(* Helpers shared by the report screens                                    *)
(***************************************************************************)
\* Number(row.col) || 0 : a column the query did not select reads as undefined
NumberOr0(row, col) == IF col \in DOMAIN row THEN row[col] ELSE 0

\* the columns a select() list returns
Project(row, cols) == [c \in cols |-> row[c]]

RECURSIVE SumOf(_, _)
SumOf(rows, col) ==
    IF rows = {} THEN 0
    ELSE LET r == CHOOSE x \in rows : TRUE IN NumberOr0(r, col) + SumOf(rows \ {r}, col)

RECURSIVE SumSeq(_, _)
SumSeq(rows, col) ==
    IF rows = <<>> THEN 0 ELSE rows[1][col] + SumSeq(Tail(rows), col)

HeaderOf(headers, id) == CHOOSE h \in headers : h.id = id

\* every order in which the store may return a set of rows (the query has no ORDER BY)
RECURSIVE Orders(_)
Orders(S) ==
    IF S = {} THEN {<<>>}
    ELSE UNION {{<<x>> \o o : o \in Orders(S \ {x})} : x \in S}

Abs(x) == IF x < 0 THEN -x ELSE x

(***************************************************************************)
(* Stable sort of fetched lines by the date of their header                *)
(* (Array.prototype.sort with comparator dateA - dateB is stable: lines of *)
(* one date keep the order in which the store returned them)               *)
(***************************************************************************)
DateOfLine(headers, l) == HeaderOf(headers, l.header_id).transaction_date

InsertByDate(headers, sorted, x) ==
    LET k == Cardinality({i \in 1..Len(sorted) :
                 DateOfLine(headers, sorted[i]) <= DateOfLine(headers, x)})
    IN SubSeq(sorted, 1, k) \o <<x>> \o SubSeq(sorted, k + 1, Len(sorted))

RECURSIVE SortByDate(_, _)
SortByDate(headers, seq) ==
    IF seq = <<>> THEN <<>>
    ELSE InsertByDate(headers, SortByDate(headers, SubSeq(seq, 1, Len(seq) - 1)), seq[Len(seq)])

(***************************************************************************)
(* General Ledger                                                          *)
(***************************************************************************)
\* rows of gl_transactions joined (inner) to gl_headers, filtered as fetchOpeningBalance does;
\* the row id is kept only to tell equal rows apart
OpeningRows(headers, lines, accountId, startDate, cols) ==
    { Project(l, cols \cup {"id"}) : l \in
        { x \in lines : /\ x.account_id = accountId
                        /\ \E h \in headers : /\ h.id = x.header_id
                                              /\ h.status = "posted"
                                              /\ h.transaction_date < startDate } }

\* GeneralLedger.fetchOpeningBalance: totalDebit - totalCredit over the selected debit, credit
GLOpeningBalance(headers, lines, accountId, startDate) ==
    LET data == OpeningRows(headers, lines, accountId, startDate, {"debit", "credit"})
        totalDebit == SumOf(data, "debit")
        totalCredit == SumOf(data, "credit")
    IN [debit |-> totalDebit, credit |-> totalCredit, balance |-> totalDebit - totalCredit]

\* GeneralLedger.fetchTransactions: headers of the range (no status filter)
GLHeaderData(headers, start, end) ==
    { h \in headers : h.transaction_date >= start /\ h.transaction_date <= end }

\* GeneralLedger.fetchTransactions: the account's lines of those headers
GLTransactionData(lines, headerData, accountId) ==
    { l \in lines : l.account_id = accountId /\ l.header_id \in {h.id : h \in headerData} }

GLMapped(headers, l) ==
    [date |-> DateOfLine(headers, l),
     debit |-> NumberOr0(l, "debit"),
     credit |-> NumberOr0(l, "credit"),
     debit_doc_currency |-> NumberOr0(l, "debit_doc_currency"),
     credit_doc_currency |-> NumberOr0(l, "credit_doc_currency"),
     running_balance |-> 0,
     running_balance_doc |-> 0]

\* the running-balance pass over the sorted rows
RECURSIVE GLRunning(_, _, _)
GLRunning(rows, runningBalance, runningBalanceDoc) ==
    IF rows = <<>> THEN <<>>
    ELSE LET t == rows[1]
             rb == runningBalance + t.debit - t.credit
             rbd == runningBalanceDoc + t.debit_doc_currency - t.credit_doc_currency
         IN <<[t EXCEPT !.running_balance = rb, !.running_balance_doc = rbd]>>
                \o GLRunning(Tail(rows), rb, rbd)

\* mapped, date-sorted rows with running balances, from the lines in the order returned
GLFormatted(headers, order, openingBalanceAmount) ==
    LET sorted == SortByDate(headers, order)
        mapped == [i \in 1..Len(sorted) |-> GLMapped(headers, sorted[i])]
    IN GLRunning(mapped, openingBalanceAmount, 0)

\* totals including the opening balance
GLTotals(rows, openingBalanceAmount) ==
    [debit |-> SumSeq(rows, "debit") + (IF openingBalanceAmount > 0 THEN openingBalanceAmount ELSE 0),
     credit |-> SumSeq(rows, "credit") + (IF openingBalanceAmount < 0 THEN Abs(openingBalanceAmount) ELSE 0)]

\* state of the component after fetchTransactions has run to its end.
\* openFail / hdrFail / txFail: the store answered the query with an error.
GLFetchTransactions(st, headers, lines, order, openFail, hdrFail, txFail) ==
    LET ob == GLOpeningBalance(headers, lines, st.selectedAccount, st.start)
        openingBalanceAmount == IF openFail THEN 0 ELSE ob.balance
        st1 == IF openFail THEN [st EXCEPT !.error = FALSE]
               ELSE [st EXCEPT !.error = FALSE, !.openingBalance = ob]
        headerData == GLHeaderData(headers, st.start, st.end)
        rows == GLFormatted(headers, order, openingBalanceAmount)
    IN IF hdrFail
       THEN [st1 EXCEPT !.error = TRUE, !.transactions = <<>>]
       ELSE IF headerData = {}
       THEN [st1 EXCEPT !.transactions = <<>>, !.totals = [debit |-> 0, credit |-> 0]]
       ELSE IF txFail
       THEN [st1 EXCEPT !.error = TRUE, !.transactions = <<>>]
       ELSE [st1 EXCEPT !.transactions = rows, !.totals = GLTotals(rows, openingBalanceAmount)]

GLInit ==
    [selectedAccount |-> "", start |-> 1, end |-> MaxDate,
     openingBalance |-> [debit |-> 0, credit |-> 0, balance |-> 0],
     transactions |-> <<>>, totals |-> [debit |-> 0, credit |-> 0],
     isReportGenerated |-> FALSE, error |-> FALSE,
     \* history of the fetches, kept for the properties only
     fetched |-> FALSE, fetchOk |-> FALSE,
     hasPrev |-> FALSE, prevTransactions |-> <<>>]

\* the account dropdown
GL_SelectAccount(a) ==
    /\ a # gl.selectedAccount
    /\ gl' = [gl EXCEPT !.selectedAccount = a, !.isReportGenerated = FALSE,
                        !.fetched = FALSE, !.fetchOk = FALSE, !.hasPrev = FALSE,
                        !.prevTransactions = <<>>]
    /\ UNCHANGED <<gl_headers, gl_transactions, book, tb, be, ed, dash, cr, zk, glFetch>>

\* the date inputs
GL_SetDateRange(s, e) ==
    /\ s <= e
    /\ <<s, e>> # <<gl.start, gl.end>>
    /\ gl' = [gl EXCEPT !.start = s, !.end = e, !.isReportGenerated = FALSE,
                        !.fetched = FALSE, !.fetchOk = FALSE, !.hasPrev = FALSE,
                        !.prevTransactions = <<>>]
    /\ UNCHANGED <<gl_headers, gl_transactions, book, tb, be, ed, dash, cr, zk, glFetch>>

\* handleGenerateReport
GL_GenerateReport ==
    /\ gl.selectedAccount # ""
    /\ \E openFail \in BOOLEAN, hdrFail \in BOOLEAN, txFail \in BOOLEAN :
       \E order \in Orders(GLTransactionData(gl_transactions,
                               GLHeaderData(gl_headers, gl.start, gl.end), gl.selectedAccount)) :
          LET st == GLFetchTransactions(gl, gl_headers, gl_transactions, order,
                                        openFail, hdrFail, txFail)
              ok == ~openFail /\ ~hdrFail /\ ~txFail
          IN gl' = [st EXCEPT !.isReportGenerated = TRUE,
                              !.fetched = TRUE, !.fetchOk = ok,
                              !.hasPrev = gl.fetched /\ gl.fetchOk /\ ok,
                              !.prevTransactions = IF gl.fetched /\ gl.fetchOk /\ ok
                                                   THEN gl.transactions ELSE <<>>]
    /\ UNCHANGED <<gl_headers, gl_transactions, book, tb, be, ed, dash, cr, zk, glFetch>>

(***************************************************************************)
(* General Ledger: fetchTransactions as the three requests it sends, each  *)
(* answered from the store as it stands when the request arrives           *)
(***************************************************************************)
GLFetchIdle ==
    [pc |-> "idle", selectedAccount |-> "", start |-> 1, end |-> 1,
     openingBalance |-> [debit |-> 0, credit |-> 0, balance |-> 0],
     headerData |-> {}, transactions |-> <<>>, totals |-> [debit |-> 0, credit |-> 0],
     \* the states of the store since the call began, kept for the properties only
     seen |-> {}]

GLFetchInFlight == glFetch.pc \in {"opening", "headers", "transactions"}

\* a write to the store while the call is in progress
GLFetchObserve(headers, lines) ==
    IF GLFetchInFlight
    THEN [glFetch EXCEPT !.seen = @ \cup {[headers |-> headers, lines |-> lines]}]
    ELSE glFetch

\* handleGenerateReport: fetchTransactions is called
GLF_Start(a, s, e) ==
    /\ ~GLFetchInFlight
    /\ s <= e
    /\ glFetch' = [GLFetchIdle EXCEPT !.pc = "opening", !.selectedAccount = a,
                                      !.start = s, !.end = e,
                                      !.seen = {[headers |-> gl_headers,
                                                 lines |-> gl_transactions]}]
    /\ UNCHANGED <<gl_headers, gl_transactions, gl, book, tb, be, ed, dash, cr, zk>>

\* the answer of fetchOpeningBalance
GLF_OpeningBalance ==
    /\ glFetch.pc = "opening"
    /\ glFetch' = [glFetch EXCEPT !.pc = "headers",
                      !.openingBalance = GLOpeningBalance(gl_headers, gl_transactions,
                                                          glFetch.selectedAccount, glFetch.start)]
    /\ UNCHANGED <<gl_headers, gl_transactions, gl, book, tb, be, ed, dash, cr, zk>>

\* the answer of the gl_headers query
GLF_Headers ==
    /\ glFetch.pc = "headers"
    /\ LET headerData == GLHeaderData(gl_headers, glFetch.start, glFetch.end) IN
       glFetch' = IF headerData = {}
                  THEN [glFetch EXCEPT !.pc = "done"]
                  ELSE [glFetch EXCEPT !.pc = "transactions", !.headerData = headerData]
    /\ UNCHANGED <<gl_headers, gl_transactions, gl, book, tb, be, ed, dash, cr, zk>>

\* the answer of the gl_transactions query, returned in the order `order`
GLF_Transactions(order) ==
    /\ glFetch.pc = "transactions"
    /\ LET rows == GLFormatted(glFetch.headerData, order, glFetch.openingBalance.balance) IN
       glFetch' = [glFetch EXCEPT !.pc = "done", !.transactions = rows,
                                  !.totals = GLTotals(rows, glFetch.openingBalance.balance)]
    /\ UNCHANGED <<gl_headers, gl_transactions, gl, book, tb, be, ed, dash, cr, zk>>

(***************************************************************************)
(* Cash Book and Bank Book (two components with the same code; they differ *)
(* in the accounts they list)                                              *)
(***************************************************************************)
BookAccounts(kind) == IF kind = "cash" THEN CashBooks ELSE BankBooks

\* CashBook/BankBook.fetchOpeningBalance: the query selects id, debit, credit and the
\* loop reads debit_doc_currency and credit_doc_currency
BookOpeningBalance(headers, lines, accountId, startDate) ==
    LET data == OpeningRows(headers, lines, accountId, startDate, {"debit", "credit"})
        totalDebit == SumOf(data, "debit_doc_currency")
        totalCredit == SumOf(data, "credit_doc_currency")
    IN totalDebit - totalCredit

\* fetchTransactions: posted headers of the range
BookHeaders(headers, start, end) ==
    { h \in headers : /\ h.status = "posted"
                      /\ h.transaction_date >= start
                      /\ h.transaction_date <= end }

\* fetchTransactions: the account's lines of those headers
BookTransactionData(lines, hs, accountId) ==
    { l \in lines : l.account_id = accountId /\ l.header_id \in {h.id : h \in hs} }

\* the .map() over the sorted lines, carrying runningBalance
RECURSIVE BookFormatted(_, _, _)
BookFormatted(headers, sorted, runningBalance) ==
    IF sorted = <<>> THEN <<>>
    ELSE LET l == sorted[1]
             debit == NumberOr0(l, "debit_doc_currency")
             credit == NumberOr0(l, "credit_doc_currency")
             rb == runningBalance + debit - credit
         IN <<[date |-> DateOfLine(headers, l),
               document_amount |-> NumberOr0(l, "debit") - NumberOr0(l, "credit"),
               debit |-> debit, credit |-> credit, balance |-> rb]>>
                \o BookFormatted(headers, Tail(sorted), rb)

BookTotals(rows) ==
    [debit |-> SumSeq(rows, "debit"), credit |-> SumSeq(rows, "credit"),
     docAmount |-> SumSeq(rows, "document_amount")]

\* state of the component after fetchTransactions has run to its end
BookFetchTransactions(st, headers, lines, order, openFail, hdrFail, txFail) ==
    LET ob == BookOpeningBalance(headers, lines, st.selected, st.start)
        openingBalanceAmount == IF openFail THEN 0 ELSE ob
        st1 == IF openFail THEN [st EXCEPT !.error = FALSE]
               ELSE [st EXCEPT !.error = FALSE,
                               !.openingBalance = [set |-> TRUE, balance |-> ob]]
        hs == BookHeaders(headers, st.start, st.end)
        rows == BookFormatted(headers, SortByDate(headers, order), openingBalanceAmount)
        last == IF rows = <<>> THEN openingBalanceAmount ELSE rows[Len(rows)].balance
    IN IF hdrFail
       THEN [st1 EXCEPT !.error = TRUE]
       ELSE IF hs = {}
       THEN [st1 EXCEPT !.transactions = <<>>,
                        !.closingBalance = [set |-> TRUE, balance |-> openingBalanceAmount]]
       ELSE IF txFail
       THEN [st1 EXCEPT !.error = TRUE]
       ELSE [st1 EXCEPT !.totals = BookTotals(rows), !.transactions = rows,
                        !.closingBalance = [set |-> TRUE, balance |-> last]]

BookInit(kind) ==
    [kind |-> kind, selected |-> "", start |-> 1, end |-> MaxDate,
     openingBalance |-> [set |-> FALSE, balance |-> 0],
     closingBalance |-> [set |-> FALSE, balance |-> 0],
     transactions |-> <<>>, totals |-> [debit |-> 0, credit |-> 0, docAmount |-> 0],
     error |-> FALSE,
     \* the calls of fetchTransactions that have not returned yet, and how many calls
     \* were made (used when the answers of the store are taken one by one)
     pending |-> {}, issued |-> 0,
     \* history of the fetches, kept for the properties only
     fetched |-> FALSE, fetchOk |-> FALSE]

\* the effect on [selectedCashBook, dateRange, customStartDate, customEndDate]
BookEffect(st) ==
    \E openFail \in BOOLEAN, hdrFail \in BOOLEAN, txFail \in BOOLEAN :
    \E order \in Orders(BookTransactionData(gl_transactions,
                            BookHeaders(gl_headers, st.start, st.end), st.selected)) :
       book' = [BookFetchTransactions(st, gl_headers, gl_transactions, order,
                                      openFail, hdrFail, txFail)
                   EXCEPT !.fetched = TRUE,
                          !.fetchOk = ~openFail /\ ~hdrFail /\ ~txFail]

\* the route /reports/cash-book or /reports/bank-book is opened
Book_Open(kind) ==
    /\ book # BookInit(kind)
    /\ book' = BookInit(kind)
    /\ UNCHANGED <<gl_headers, gl_transactions, gl, tb, be, ed, dash, cr, zk, glFetch>>

\* the book dropdown
Book_Select(a) ==
    /\ a \in BookAccounts(book.kind)
    /\ a # book.selected
    /\ BookEffect([book EXCEPT !.selected = a])
    /\ UNCHANGED <<gl_headers, gl_transactions, gl, tb, be, ed, dash, cr, zk, glFetch>>

\* the date inputs
Book_SetDateRange(s, e) ==
    /\ s <= e
    /\ <<s, e>> # <<book.start, book.end>>
    /\ IF book.selected # ""
       THEN BookEffect([book EXCEPT !.start = s, !.end = e])
       ELSE book' = [book EXCEPT !.start = s, !.end = e]
    /\ UNCHANGED <<gl_headers, gl_transactions, gl, tb, be, ed, dash, cr, zk, glFetch>>

(***************************************************************************)
(* Cash Book and Bank Book: fetchTransactions as the requests it sends.    *)
(* The effect starts a new call at every change of the book or the range   *)
(* and nothing cancels or supersedes a call that is still waiting.         *)
(***************************************************************************)
\* the book dropdown or the date inputs are changed and the effect calls
\* fetchTransactions, which captures the book and the range and runs up to its
\* first await
Book_StartFetch(a, s, e) ==
    /\ a \in BookAccounts(book.kind)
    /\ s <= e
    /\ <<a, s, e>> # <<book.selected, book.start, book.end>>
    /\ book.issued < MaxRequests
    /\ book' = [book EXCEPT !.selected = a, !.start = s, !.end = e, !.error = FALSE,
                            !.issued = @ + 1,
                            !.pending = @ \cup {[id |-> book.issued + 1, selected |-> a,
                                                  start |-> s, end |-> e,
                                                  pc |-> "opening", opening |-> 0]},
                            !.fetched = FALSE,
                            !.fetchOk = IF book.pending = {} THEN TRUE ELSE @]
    /\ UNCHANGED <<gl_headers, gl_transactions, gl, tb, be, ed, dash, cr, zk, glFetch>>

\* the store answers the request the call f is waiting for (with an error if fail),
\* and the call runs up to its next await or to its end
Book_FetchAnswer(f, order, fail) ==
    /\ f \in book.pending
    /\ LET others == book.pending \ {f}
           over == [book EXCEPT !.pending = others, !.fetched = (others = {}),
                                !.fetchOk = @ /\ ~fail]
           hs == BookHeaders(gl_headers, f.start, f.end)
           rows == BookFormatted(gl_headers, SortByDate(gl_headers, order), f.opening)
           last == IF rows = <<>> THEN f.opening ELSE rows[Len(rows)].balance
       IN
       CASE f.pc = "opening" ->
               /\ order = <<>>
               /\ LET ob == BookOpeningBalance(gl_headers, gl_transactions,
                                               f.selected, f.start)
                  IN book' = IF fail
                             THEN [book EXCEPT !.pending = others \cup {[f EXCEPT !.pc = "headers"]},
                                               !.fetchOk = FALSE]
                             ELSE [book EXCEPT
                                     !.pending = others \cup {[f EXCEPT !.pc = "headers",
                                                                       !.opening = ob]},
                                     !.openingBalance = [set |-> TRUE, balance |-> ob]]
         [] f.pc = "headers" ->
               /\ order = <<>>
               /\ book' = IF fail THEN [over EXCEPT !.error = TRUE]
                          ELSE IF hs = {}
                          THEN [over EXCEPT !.transactions = <<>>,
                                            !.closingBalance = [set |-> TRUE,
                                                                balance |-> f.opening]]
                          ELSE [book EXCEPT
                                  !.pending = others \cup {[f EXCEPT !.pc = "transactions"]}]
         [] f.pc = "transactions" ->
               /\ order \in Orders(BookTransactionData(gl_transactions, hs, f.selected))
               /\ book' = IF fail THEN [over EXCEPT !.error = TRUE]
                          ELSE [over EXCEPT !.totals = BookTotals(rows),
                                            !.transactions = rows,
                                            !.closingBalance = [set |-> TRUE,
                                                                balance |-> last]]
    /\ UNCHANGED <<gl_headers, gl_transactions, gl, tb, be, ed, dash, cr, zk, glFetch>>

(***************************************************************************)
(* Trial Balance                                                           *)
(***************************************************************************)
\* fetchTrialBalance: the lines of one account kept by the filter
\* ['draft', 'posted'].includes(status) && transaction_date <= selectedDate
TBAccountLines(headers, lines, a, selectedDate) ==
    { l \in lines : /\ l.account_id = a
                    /\ \E h \in headers : /\ h.id = l.header_id
                                          /\ h.status \in {"draft", "posted"}
                                          /\ h.transaction_date <= selectedDate }

\* a variant that shows the larger side in full instead of the net figure
TBFormattedGross(headers, lines, a, selectedDate) ==
    LET transactions == TBAccountLines(headers, lines, a, selectedDate)
        totalDebit == SumOf(transactions, "debit")
        totalCredit == SumOf(transactions, "credit")
    IN [code |-> a,
        debit |-> IF totalDebit > totalCredit THEN totalDebit ELSE 0,
        credit |-> IF totalCredit > totalDebit THEN totalCredit - totalDebit ELSE 0]

\* fetchTrialBalance: one formatted account
TBFormatted(headers, lines, a, selectedDate) ==
    LET transactions == TBAccountLines(headers, lines, a, selectedDate)
        totalDebit == SumOf(transactions, "debit")
        totalCredit == SumOf(transactions, "credit")
    IN [code |-> a,
        debit |-> IF totalDebit > totalCredit THEN totalDebit - totalCredit ELSE 0,
        credit |-> IF totalCredit > totalDebit THEN totalCredit - totalDebit ELSE 0]

\* a variant that keeps the accounts without a figure
TBFormattedAccountsAll(headers, lines, selectedDate) ==
    {TBFormatted(headers, lines, a, selectedDate) : a \in ChartOfAccounts}

\* fetchTrialBalance: every row of chart_of_accounts (the query has no filter on
\* is_active), those with no figure filtered out
TBFormattedAccounts(headers, lines, selectedDate) ==
    { r \in {TBFormatted(headers, lines, a, selectedDate) : a \in ChartOfAccounts} :
        r.debit > 0 \/ r.credit > 0 }

\* the totals row
TBTotals(accounts) ==
    [debit |-> SumOf(accounts, "debit"), credit |-> SumOf(accounts, "credit")]

TBInit == [selectedDate |-> MaxDate, accounts |-> {}, error |-> FALSE, fetched |-> FALSE]

\* the effect on [selectedDate]
TBEffect(st) ==
    \E fail \in BOOLEAN :
       tb' = IF fail
             THEN [st EXCEPT !.error = TRUE, !.fetched = TRUE]
             ELSE [st EXCEPT !.error = FALSE, !.fetched = TRUE,
                             !.accounts = TBFormattedAccounts(gl_headers, gl_transactions,
                                                              st.selectedDate)]

\* a variant that removes the void groups it has read past
TB_MountPurging ==
    /\ ~tb.fetched
    /\ TBEffect(tb)
    /\ gl_headers' = { h \in gl_headers : h.status # "void" }
    /\ UNCHANGED <<gl_transactions, gl, book, be, ed, dash, cr, zk, glFetch>>

\* the component mounts and fetches for today's date
TB_Mount ==
    /\ ~tb.fetched
    /\ TBEffect(tb)
    /\ UNCHANGED <<gl_headers, gl_transactions, gl, book, be, ed, dash, cr, zk, glFetch>>

\* the date input
TB_SetDate(d) ==
    /\ tb.fetched
    /\ d # tb.selectedDate
    /\ TBEffect([tb EXCEPT !.selectedDate = d])
    /\ UNCHANGED <<gl_headers, gl_transactions, gl, book, be, ed, dash, cr, zk, glFetch>>

(***************************************************************************)
(* Bank Entry and Edit Bank Entry                                          *)
(***************************************************************************)
\* what is entered in a form: the bank book and the values typed into the Document
\* Amount and Exchange Rate inputs (type="number", required, no min).  Every amount is
\* a multiple of every non-zero rate, so that amount / rate is exact.
FormInputs ==
    { [bankId |-> "bankA", amount |-> 2, rate |-> 1],
      [bankId |-> "bankU", amount |-> 2, rate |-> 2],
      [bankId |-> "bankU", amount |-> -2, rate |-> 2],
      [bankId |-> "bankU", amount |-> 0, rate |-> 2],
      [bankId |-> "bankU", amount |-> 2, rate |-> 0],
      [bankId |-> "bankU", amount |-> 2, rate |-> -1],
      [bankId |-> "bankU", amount |-> -2, rate |-> -1],
      [bankId |-> "bankE", amount |-> 2, rate |-> 2],
      [bankId |-> "bankE", amount |-> -2, rate |-> 1],
      [bankId |-> "bankE", amount |-> 2, rate |-> 0] }

\* the account chosen on the other side of the entry
FormAccounts == {"exp"}

\* the date typed into the form: the first or the last day
FormDates == {1, MaxDate}

\* baseAmount of handleSubmit, as the store keeps it.  amount / 0 is Infinity, which
\* the JSON request body carries as null; every reader takes a null amount as 0
\* (Number(null) || 0), so it is kept as 0.
BaseAmount(note, amount, rate) ==
    CASE note = "multiply" -> amount * rate
      [] note = "divide" -> IF rate = 0 THEN 0 ELSE amount \div rate
      [] OTHER -> amount

\* the two rows of glTransactions built by handleSubmit
EntryRows(headerId, bankId, accountId, amount, rate, baseAmount, id1, id2) ==
    { [id |-> id1, header_id |-> headerId, account_id |-> bankId,
       debit |-> IF amount > 0 THEN baseAmount ELSE 0,
       credit |-> IF amount < 0 THEN Abs(baseAmount) ELSE 0,
       debit_doc_currency |-> IF amount > 0 THEN amount ELSE 0,
       credit_doc_currency |-> IF amount < 0 THEN Abs(amount) ELSE 0,
       exchange_rate |-> rate, currency_id |-> AccountCurrency(bankId)],
      [id |-> id2, header_id |-> headerId, account_id |-> accountId,
       debit |-> IF amount < 0 THEN Abs(baseAmount) ELSE 0,
       credit |-> IF amount > 0 THEN baseAmount ELSE 0,
       debit_doc_currency |-> IF amount < 0 THEN Abs(amount) ELSE 0,
       credit_doc_currency |-> IF amount > 0 THEN amount ELSE 0,
       exchange_rate |-> rate, currency_id |-> AccountCurrency(bankId)] }

\* a variant whose account row is credited with the document amount
BEGlTransactionsDocCredit(headerId, bankId, accountId, amount, rate, id1, id2) ==
    LET rows == EntryRows(headerId, bankId, accountId, amount, rate,
                  BaseAmount(ExchangeRateNote(AccountCurrency(bankId)), amount, rate), id1, id2)
    IN { IF r.id = id2 THEN [r EXCEPT !.credit = r.credit_doc_currency] ELSE r : r \in rows }

\* BankEntry.handleSubmit: base amount and glTransactions
BEGlTransactions(headerId, bankId, accountId, amount, rate, id1, id2) ==
    EntryRows(headerId, bankId, accountId, amount, rate,
              BaseAmount(ExchangeRateNote(AccountCurrency(bankId)), amount, rate), id1, id2)

\* EditBankEntry.handleSubmit: base amount and glTransactions
EDGlTransactions(headerId, bankId, accountId, amount, rate, id1, id2) ==
    EntryRows(headerId, bankId, accountId, amount, rate,
              BaseAmount(ExchangeRateNote(AccountCurrency(bankId)), amount, rate), id1, id2)

\* the ids the store gives to new rows: the smallest ones not in use
FreshId(used) == CHOOSE i \in 1..(Cardinality(used) + 1) : i \notin used

FreshLineId1 == FreshId({l.id : l \in gl_transactions})

FreshLineId2 == FreshId({l.id : l \in gl_transactions} \cup {FreshLineId1})

BEIdle(last, lastId) == [pc |-> "idle", last |-> last, lastId |-> lastId]

EDIdle(last, lastId) == [pc |-> "idle", last |-> last, lastId |-> lastId]

\* The two forms are routes of one application and one of them is mounted at a time:
\* a form is used when the other one is idle.

\* handleSubmit up to the early return on amount <= 0
BE_Reject(amount) ==
    /\ be.pc = "idle"
    /\ ed.pc = "idle"
    /\ amount <= 0
    /\ be' = BEIdle("rejected", 0)
    /\ UNCHANGED <<gl_headers, gl_transactions, gl, book, tb, ed, dash, cr, zk, glFetch>>

\* handleSubmit up to the answer of the gl_headers insert
BE_InsertHeader(bankId, accountId, amount, rate, date, ok) ==
    /\ be.pc = "idle"
    /\ ed.pc = "idle"
    /\ amount > 0
    /\ Cardinality(gl_headers) < MaxHeaders
    /\ LET headerId == FreshId({h.id : h \in gl_headers}) IN
       IF ok
       THEN /\ gl_headers' = gl_headers \cup
                  {[id |-> headerId, transaction_date |-> date,
                    status |-> "posted", type_code |-> "BANK"]}
            /\ be' = [pc |-> "lines", headerId |-> headerId, bankId |-> bankId,
                      accountId |-> accountId, amount |-> amount, rate |-> rate]
       ELSE /\ gl_headers' = gl_headers
            /\ be' = BEIdle("failed", 0)
    /\ UNCHANGED <<gl_transactions, gl, book, tb, ed, dash, cr, zk>>
    /\ glFetch' = GLFetchObserve(gl_headers', gl_transactions')

\* the answer of the gl_transactions insert (one statement for both rows)
BE_InsertLines(ok) ==
    /\ be.pc = "lines"
    /\ IF ok /\ \E h \in gl_headers : h.id = be.headerId
       THEN /\ gl_transactions' = gl_transactions \cup
                  BEGlTransactions(be.headerId, be.bankId, be.accountId, be.amount, be.rate,
                                   FreshLineId1, FreshLineId2)
            /\ be' = BEIdle("success", be.headerId)
       ELSE /\ gl_transactions' = gl_transactions
            /\ be' = [be EXCEPT !.pc = "rollback"]
    /\ UNCHANGED <<gl_headers, gl, book, tb, ed, dash, cr, zk>>
    /\ glFetch' = GLFetchObserve(gl_headers', gl_transactions')

\* "Rollback header if transaction insertion fails": the delete's own answer is not read
BE_Rollback(ok) ==
    /\ be.pc = "rollback"
    /\ gl_headers' = IF ok THEN { h \in gl_headers : h.id # be.headerId } ELSE gl_headers
    /\ be' = BEIdle("failed", be.headerId)
    /\ UNCHANGED <<gl_transactions, gl, book, tb, ed, dash, cr, zk>>
    /\ glFetch' = GLFetchObserve(gl_headers', gl_transactions')

\* fetchTransaction: the form is filled from the stored group; `order` is the order in
\* which the store returns the embedded gl_transactions
ED_Open(id, order) ==
    /\ ed.pc = "idle"
    /\ be.pc = "idle"
    /\ \E h \in gl_headers : h.id = id
    /\ LET bankTx == SelectSeq(order, LAMBDA t : t.account_id \in BankBooks)
           acctTx == SelectSeq(order, LAMBDA t : t.account_id \notin BankBooks)
           amount == IF bankTx = <<>> THEN 0
                     ELSE IF bankTx[1].debit_doc_currency # 0
                          THEN bankTx[1].debit_doc_currency
                          ELSE -bankTx[1].credit_doc_currency
       IN ed' = [pc |-> "form", id |-> id,
                 bankId |-> IF bankTx = <<>> THEN "" ELSE bankTx[1].account_id,
                 accountId |-> IF acctTx = <<>> THEN "" ELSE acctTx[1].account_id,
                 amount |-> Abs(amount),
                 rate |-> IF bankTx = <<>> THEN 1 ELSE bankTx[1].exchange_rate,
                 date |-> HeaderOf(gl_headers, id).transaction_date,
                 last |-> "none"]
    /\ UNCHANGED <<gl_headers, gl_transactions, gl, book, tb, be, dash, cr, zk, glFetch>>

\* Cancel
ED_Cancel ==
    /\ ed.pc = "form"
    /\ ed' = EDIdle("none", 0)
    /\ UNCHANGED <<gl_headers, gl_transactions, gl, book, tb, be, dash, cr, zk, glFetch>>

\* handleSubmit, with the inputs as they stand in the form, up to the answer of the
\* gl_headers update; after a failure the form stays open
ED_UpdateHeader(bankId, accountId, amount, rate, date, ok) ==
    /\ ed.pc = "form"
    /\ IF ok
       THEN /\ gl_headers' = { IF h.id = ed.id THEN [h EXCEPT !.transaction_date = date]
                               ELSE h : h \in gl_headers }
            /\ ed' = [pc |-> "delete", id |-> ed.id, bankId |-> bankId,
                      accountId |-> accountId, amount |-> amount, rate |-> rate,
                      date |-> date, last |-> "none",
                      \* history, kept for the properties only: this submission has
                      \* altered the stored group
                      touched |-> gl_headers' # gl_headers]
       ELSE /\ gl_headers' = gl_headers
            /\ ed' = [pc |-> "form", id |-> ed.id, bankId |-> bankId,
                      accountId |-> accountId, amount |-> amount, rate |-> rate,
                      date |-> date, last |-> "failed", touched |-> FALSE]
    /\ UNCHANGED <<gl_transactions, gl, book, tb, be, dash, cr, zk>>
    /\ glFetch' = GLFetchObserve(gl_headers', gl_transactions')

\* the answer of the gl_transactions delete
ED_DeleteLines(ok) ==
    /\ ed.pc = "delete"
    /\ IF ok
       THEN /\ gl_transactions' = { l \in gl_transactions : l.header_id # ed.id }
            /\ ed' = [ed EXCEPT !.pc = "insert",
                                !.touched = @ \/ gl_transactions' # gl_transactions]
       ELSE /\ gl_transactions' = gl_transactions
            /\ ed' = [ed EXCEPT !.pc = "form", !.last = "failed"]
    /\ UNCHANGED <<gl_headers, gl, book, tb, be, dash, cr, zk>>
    /\ glFetch' = GLFetchObserve(gl_headers', gl_transactions')

\* the answer of the gl_transactions insert
ED_InsertLines(ok) ==
    /\ ed.pc = "insert"
    /\ IF ok /\ \E h \in gl_headers : h.id = ed.id
       THEN /\ gl_transactions' = gl_transactions \cup
                  EDGlTransactions(ed.id, ed.bankId, ed.accountId, ed.amount, ed.rate,
                                   FreshLineId1, FreshLineId2)
            /\ ed' = EDIdle("success", ed.id)
       ELSE /\ gl_transactions' = gl_transactions
            /\ ed' = [ed EXCEPT !.pc = "form", !.last = "failed"]
    /\ UNCHANGED <<gl_headers, gl, book, tb, be, dash, cr, zk>>
    /\ glFetch' = GLFetchObserve(gl_headers', gl_transactions')

(***************************************************************************)
(* Logs with commission-bearing groups.  A group has a transaction type    *)
(* code; its lines carry the column `amount` (the line's own amount).      *)
(***************************************************************************)
\* the account the commission lines are posted to
CommissionAccount == "comm"

\* the type codes the Commission report asks for
TypeCodes == {"GENT", "IPTC", "MNGC", "BNKT"}

CShapes ==
    << \* customer debit 1000, supplier credit 975, commission credit 25
       [cur |-> "AED", rate |-> 1, lines |->
          << [account_id |-> "cust", debit |-> 1000, credit |-> 0, doc |-> 1000],
             [account_id |-> "supp", debit |-> 0, credit |-> 975, doc |-> 975],
             [account_id |-> "comm", debit |-> 0, credit |-> 25, doc |-> 25] >>],
       \* no commission line
       [cur |-> "AED", rate |-> 1, lines |->
          << [account_id |-> "cust", debit |-> 50, credit |-> 0, doc |-> 50],
             [account_id |-> "supp", debit |-> 0, credit |-> 50, doc |-> 50] >>],
       \* no customer line: the only debit is on the commission account
       [cur |-> "AED", rate |-> 1, lines |->
          << [account_id |-> "comm", debit |-> 5, credit |-> 0, doc |-> 5],
             [account_id |-> "supp", debit |-> 0, credit |-> 5, doc |-> 5] >>],
       \* a commission group in EUR (divide, rate 2)
       [cur |-> "EUR", rate |-> 2, lines |->
          << [account_id |-> "cust", debit |-> 20, credit |-> 0, doc |-> 40],
             [account_id |-> "supp", debit |-> 0, credit |-> 15, doc |-> 30],
             [account_id |-> "comm", debit |-> 0, credit |-> 5, doc |-> 10] >>],
       \* a receipt on the EUR bank account
       [cur |-> "EUR", rate |-> 2, lines |->
          << [account_id |-> "bankE", debit |-> 2, credit |-> 0, doc |-> 4],
             [account_id |-> "exp", debit |-> 0, credit |-> 2, doc |-> 4] >>] >>

\* groups the Commission report is run over
CTemplates ==
    { [shape |-> 1, date |-> 1, status |-> "posted", type |-> c] : c \in TypeCodes \cup {"JV"} }
    \cup { [shape |-> 1, date |-> d, status |-> "posted", type |-> "GENT"] : d \in Dates }
    \cup { [shape |-> 1, date |-> 1, status |-> st, type |-> "GENT"] : st \in Statuses }
    \cup { [shape |-> k, date |-> 1, status |-> "posted", type |-> "GENT"] : k \in {2, 3} }

\* groups the Dashboard is run over
DTemplates ==
    { [shape |-> 1, date |-> d, status |-> st, type |-> "GENT"] : d \in Dates, st \in Statuses }
    \cup { [shape |-> k, date |-> d, status |-> "posted", type |-> "GENT"] : k \in {4, 5}, d \in Dates }

TypeIndex(c) ==
    CASE c = "GENT" -> 0 [] c = "IPTC" -> 1 [] c = "MNGC" -> 2 [] c = "BNKT" -> 3 [] OTHER -> 4

\* a distinct header id for every template
CTemplateId(t) ==
    (((t.shape - 1) * MaxDate + (t.date - 1)) * Cardinality(Statuses) + StatusIndex(t.status))
       * (Cardinality(TypeCodes) + 1) + TypeIndex(t.type) + 1

CTemplateHeader(t) ==
    [id |-> CTemplateId(t), transaction_date |-> t.date, status |-> t.status, type_code |-> t.type]

CTemplateLines(t) ==
    LET s == CShapes[t.shape] IN
    { [id |-> 3 * CTemplateId(t) + i, header_id |-> CTemplateId(t),
       account_id |-> s.lines[i].account_id,
       debit |-> s.lines[i].debit, credit |-> s.lines[i].credit,
       debit_doc_currency |-> IF s.lines[i].debit > 0 THEN s.lines[i].doc ELSE 0,
       credit_doc_currency |-> IF s.lines[i].credit > 0 THEN s.lines[i].doc ELSE 0,
       amount |-> s.lines[i].doc,
       exchange_rate |-> s.rate, currency_id |-> s.cur] : i \in 1..Len(s.lines) }

\* the sets of at most n elements of T
RECURSIVE SubsetsUpTo(_, _)
SubsetsUpTo(T, n) ==
    IF n = 0 THEN {{}}
    ELSE LET P == SubsetsUpTo(T, n - 1) IN P \cup {p \cup {t} : p \in P, t \in T}

(***************************************************************************)
(* Commission report                                                       *)
(***************************************************************************)
\* the codes the query asks for under the selected transaction type
CRRequestedCodes(transactionType) ==
    IF transactionType = "all" THEN TypeCodes ELSE TypeCodes \cap {transactionType}

\* fetchTransactions: the headers the query returns
CRData(headers, start, end, transactionType) ==
    { h \in headers : /\ h.status = "posted"
                      /\ h.transaction_date >= start
                      /\ h.transaction_date <= end
                      /\ h.type_code \in CRRequestedCodes(transactionType) }

CRCustomers(ls) == { t \in ls : t.debit > 0 /\ t.account_id # CommissionAccount }

CRSuppliers(ls) == { t \in ls : t.credit > 0 /\ t.account_id # CommissionAccount }

CRCommissions(ls) == { t \in ls : t.account_id = CommissionAccount }

\* a variant that asks for the commission line only
CRQualifiesCommissionOnly(ls) == CRCommissions(ls) # {}

\* a header gives a row only if it has a customer line and a commission line
CRQualifies(ls) == CRCustomers(ls) # {} /\ CRCommissions(ls) # {}

\* one row of the report; the header id is kept only to tell equal rows apart
CRRow(h, ls) ==
    LET customerTransaction == IF CRCustomers(ls) = {} THEN [account_id |-> "", amount |-> 0]
                               ELSE CHOOSE t \in CRCustomers(ls) : TRUE
        commissionTransaction == CHOOSE t \in CRCommissions(ls) : TRUE
    IN [id |-> h.id, date |-> h.transaction_date, transaction_type_code |-> h.type_code,
        customer |-> customerTransaction.account_id,
        supplier |-> IF CRSuppliers(ls) = {} THEN ""
                     ELSE (CHOOSE t \in CRSuppliers(ls) : TRUE).account_id,
        customer_amount |-> Abs(customerTransaction.amount),
        commission |-> Abs(IF commissionTransaction.debit # 0 THEN commissionTransaction.debit
                           ELSE commissionTransaction.credit)]

\* fetchTransactions: formattedTransactions
CRFormatted(headers, lines, start, end, transactionType) ==
    { CRRow(h, { t \in lines : t.header_id = h.id }) :
        h \in { x \in CRData(headers, start, end, transactionType) :
                   CRQualifies({ t \in lines : t.header_id = x.id }) } }

\* the effect on [transactionType, selectedPartner, allTransactions]
CRFilter(st) ==
    IF st.allTransactions = {} THEN st
    ELSE [st EXCEPT !.filteredTransactions =
            { t \in st.allTransactions :
                /\ st.transactionType = "all" \/ t.transaction_type_code = st.transactionType
                /\ st.selectedPartner = "all" \/ t.supplier = st.selectedPartner
                                              \/ t.customer = st.selectedPartner }]

CRInit ==
    [start |-> 1, end |-> MaxDate, transactionType |-> "all", selectedPartner |-> "all",
     allTransactions |-> {}, filteredTransactions |-> {},
     \* history of the fetches, kept for the properties only
     fetched |-> FALSE, fetchOk |-> FALSE, fetchedType |-> "all"]

\* the effect on [dateRange, customStartDate, customEndDate, commissionAccountId]:
\* fetchTransactions, then the filter effect on the new allTransactions
CREffect(st) ==
    \E fail \in BOOLEAN :
       cr' = IF fail
             THEN [st EXCEPT !.fetched = TRUE, !.fetchOk = FALSE]
             ELSE LET formattedTransactions ==
                         CRFormatted(gl_headers, gl_transactions, st.start, st.end,
                                     st.transactionType)
                  IN CRFilter([st EXCEPT !.allTransactions = formattedTransactions,
                                         !.filteredTransactions = formattedTransactions,
                                         !.fetched = TRUE, !.fetchOk = TRUE,
                                         !.fetchedType = st.transactionType])

\* the commission account has been found
CR_Mount ==
    /\ ~cr.fetched
    /\ CREffect(cr)
    /\ UNCHANGED <<gl_headers, gl_transactions, gl, book, tb, be, ed, dash, zk, glFetch>>

\* the date range selector and the custom date inputs
CR_SetDateRange(s, e) ==
    /\ cr.fetched
    /\ s <= e
    /\ <<s, e>> # <<cr.start, cr.end>>
    /\ CREffect([cr EXCEPT !.start = s, !.end = e])
    /\ UNCHANGED <<gl_headers, gl_transactions, gl, book, tb, be, ed, dash, zk, glFetch>>

\* the transaction type selector
CR_SetTransactionType(c) ==
    /\ cr.fetched
    /\ c # cr.transactionType
    /\ cr' = CRFilter([cr EXCEPT !.transactionType = c])
    /\ UNCHANGED <<gl_headers, gl_transactions, gl, book, tb, be, ed, dash, zk, glFetch>>

\* the partner selector
CR_SetSelectedPartner(p) ==
    /\ cr.fetched
    /\ p # cr.selectedPartner
    /\ cr' = CRFilter([cr EXCEPT !.selectedPartner = p])
    /\ UNCHANGED <<gl_headers, gl_transactions, gl, book, tb, be, ed, dash, zk, glFetch>>

(***************************************************************************)
(* Zakat calculation                                                       *)
(***************************************************************************)
\* accounts with zakat_eligible = true and is_active = true
ZakatEligible == {"cash", "bankU"}

\* texts typed into the search box
SearchTerms == {"", "cash", "bank"}

\* account.name / account.code includes the search term
ZKIncludes(a, searchTerm) ==
    CASE searchTerm = "" -> TRUE
      [] searchTerm = "cash" -> a = "cash"
      [] searchTerm = "bank" -> a \in BankBooks
      [] OTHER -> FALSE

\* fetchZakatEligibleAccounts: the balance of one account; failed: the query on its
\* lines was answered with an error
ZKBalance(headers, lines, a, selectedDate, failed) ==
    LET transactionData == { l \in lines : l.account_id = a }
        filteredTransactions ==
            { l \in transactionData :
                \E h \in headers : /\ h.id = l.header_id
                                   /\ h.status = "posted"
                                   /\ h.transaction_date <= selectedDate }
    IN IF failed THEN 0
       ELSE SumOf(filteredTransactions, "debit") - SumOf(filteredTransactions, "credit")

\* fetchZakatEligibleAccounts: accountsWithBalances
ZKAccountsWithBalances(headers, lines, selectedDate, failing) ==
    { [code |-> a, balance |-> ZKBalance(headers, lines, a, selectedDate, a \in failing)] :
        a \in ZakatEligible }

\* filterAndSortAccounts (the order of the rows is left out)
ZKFilteredAccounts(st) == { r \in st.accounts : ZKIncludes(r.code, st.searchTerm) }

ZKTotalBalance(st) == SumOf(ZKFilteredAccounts(st), "balance")

\* zakatAmount = totalBalance * 0.025, in thousandths of a unit
ZKZakatAmount(st) == ZKTotalBalance(st) * 25

ZKInit ==
    [selectedDate |-> MaxDate, searchTerm |-> "", accounts |-> {}, error |-> FALSE,
     \* history of the fetches, kept for the properties only
     fetched |-> FALSE, linesOk |-> FALSE]

\* the effect on [selectedDate, baseCurrency]
ZKEffect(st) ==
    \E accountsFail \in BOOLEAN, failing \in SUBSET ZakatEligible :
       zk' = IF accountsFail
             THEN [st EXCEPT !.error = TRUE, !.fetched = TRUE, !.linesOk = FALSE]
             ELSE [st EXCEPT !.error = FALSE, !.fetched = TRUE, !.linesOk = (failing = {}),
                             !.accounts = ZKAccountsWithBalances(gl_headers, gl_transactions,
                                                                 st.selectedDate, failing)]

\* the base currency has been loaded
ZK_Mount ==
    /\ ~zk.fetched
    /\ ZKEffect(zk)
    /\ UNCHANGED <<gl_headers, gl_transactions, gl, book, tb, be, ed, dash, cr, glFetch>>

\* the date input
ZK_SetSelectedDate(d) ==
    /\ zk.fetched
    /\ d # zk.selectedDate
    /\ ZKEffect([zk EXCEPT !.selectedDate = d])
    /\ UNCHANGED <<gl_headers, gl_transactions, gl, book, tb, be, ed, dash, cr, glFetch>>

\* the search box
ZK_SetSearchTerm(t) ==
    /\ t # zk.searchTerm
    /\ zk' = [zk EXCEPT !.searchTerm = t]
    /\ UNCHANGED <<gl_headers, gl_transactions, gl, book, tb, be, ed, dash, cr, glFetch>>

(***************************************************************************)
(* Dashboard                                                               *)
(***************************************************************************)
\* the rows table currencies may hold when the Dashboard loads it: the base currency
\* and USD always, EUR absent or present with rate 0, 2 or 4 (the rate is edited on
\* the currencies screen between two loads)
CurrencyTables ==
    LET aed == [id |-> "AED", rate |-> 1, is_base |-> TRUE, exchange_rate_note |-> "none"]
        usd == [id |-> "USD", rate |-> 2, is_base |-> FALSE, exchange_rate_note |-> "multiply"]
        eur(r) == [id |-> "EUR", rate |-> r, is_base |-> FALSE, exchange_rate_note |-> "divide"]
    IN { {aed, usd}, {aed, usd, eur(0)}, {aed, usd, eur(2)}, {aed, usd, eur(4)} }

\* a JavaScript number: an integer, or a value that is not finite (Infinity, NaN)
JsNum(v) == [finite |-> TRUE, v |-> v]

JsNotFinite == [finite |-> FALSE, v |-> 0]

\* convertToBaseCurrency
ConvertToBaseCurrency(amount, currencyId, ratesMap, baseCurrencyId) ==
    IF currencyId = baseCurrencyId THEN JsNum(amount)
    ELSE IF ~\E r \in ratesMap : r.id = currencyId THEN JsNum(amount)
    ELSE LET currency == CHOOSE r \in ratesMap : r.id = currencyId IN
         CASE currency.exchange_rate_note = "multiply" -> JsNum(amount * currency.rate)
           [] currency.exchange_rate_note = "divide" ->
                 IF currency.rate = 0 THEN JsNotFinite ELSE JsNum(amount \div currency.rate)
           [] OTHER -> JsNum(amount)

\* the edge function get_cash_book_doc_balance (no caller in the client): one balance
\* per currency over every line of the account
DocBalances(lines, accountId) ==
    LET transactions == { l \in lines : l.account_id = accountId } IN
    { [currency_id |-> c,
       balance |-> SumOf({ l \in transactions : l.currency_id = c }, "debit_doc_currency")
                   - SumOf({ l \in transactions : l.currency_id = c }, "credit_doc_currency")]
      : c \in { l.currency_id : l \in transactions } }

\* the database function get_cash_book_doc_balance, which rpc() calls: one balance per
\* currency over the account's lines of posted headers, joined to table currencies
GetCashBookDocBalance(headers, lines, currencies, accountId) ==
    LET transactions ==
           { t \in lines :
               /\ t.account_id = accountId
               /\ \E h \in headers : h.id = t.header_id /\ h.status = "posted"
               /\ \E c \in currencies : c.id = t.currency_id }
    IN { [currency_id |-> c,
          balance |-> SumOf({ t \in transactions : t.currency_id = c }, "debit_doc_currency")
                      - SumOf({ t \in transactions : t.currency_id = c }, "credit_doc_currency")]
         : c \in { t.currency_id : t \in transactions } }

\* fetchCashBookBalances / fetchBankBalances over the accounts accts; currency is the
\* row of table currencies joined to the account (none: reading it throws)
DashBalances(accts, headers, lines, table) ==
    LET balances(a) == GetCashBookDocBalance(headers, lines, table, a)
        withData == { a \in accts : balances(a) # {} }
        joined(a) == { r \in table : r.id = AccountCurrency(a) }
        row(a, b) ==
            LET currency == CHOOSE r \in joined(a) : TRUE
                rate == IF currency.rate = 0 THEN 1 ELSE currency.rate
            IN [cashbook_name |-> a, currency_id |-> b.currency_id, balance |-> b.balance,
                base_balance |->
                   IF ~currency.is_base
                   THEN IF currency.exchange_rate_note = "multiply"
                        THEN b.balance * rate ELSE b.balance \div rate
                   ELSE b.balance]
    IN IF \E a \in withData : joined(a) = {}
       THEN [ok |-> FALSE, rows |-> {}]
       ELSE [ok |-> TRUE,
             rows |-> UNION { { row(a, b) : b \in balances(a) } : a \in withData }]

\* fetchTopCommissionTransactions: the formatted rows (fewer than 10)
DashTopCommission(headers, lines, start, end, ratesMap, baseCurrencyId) ==
    LET hs == { h \in headers : /\ h.status = "posted"
                                /\ h.transaction_date >= start
                                /\ h.transaction_date <= end }
        of(h) == { t \in lines : t.header_id = h.id }
        isCommission(t) == t.account_id = CommissionAccount /\ t.credit > 0
        transactionsWithCommission == { h \in hs : \E t \in of(h) : isCommission(t) }
        row(h) ==
            LET commissionTrans == CHOOSE t \in of(h) : isCommission(t)
                customers == { t \in of(h) : t.debit > 0 /\ t.account_id # CommissionAccount }
                commission == commissionTrans.credit
                currencyId == commissionTrans.currency_id
            IN [id |-> h.id,
                amount |-> IF customers = {} THEN 0
                           ELSE (CHOOSE t \in customers : TRUE).debit - commission,
                commission |-> commission,
                \* computed and not displayed
                baseCommission |->
                   IF currencyId # baseCurrencyId
                   THEN ConvertToBaseCurrency(commission, currencyId, ratesMap, baseCurrencyId)
                   ELSE JsNum(commission)]
    IN { r \in { row(h) : h \in transactionsWithCommission } : r.commission > 0 }

DashInit ==
    [start |-> 1, end |-> MaxDate, error |-> FALSE, currencyRates |-> {},
     cashBookBalances |-> {}, bankBalances |-> {}, topCommissionTransactions |-> {},
     \* history of the fetches, kept for the properties only
     fetched |-> FALSE, cashOk |-> FALSE, bankOk |-> FALSE, topOk |-> FALSE]

\* fetchDashboardData for the month [start, end]; table is what currencies holds,
\* the flags say which queries the store answered with an error
DashFetchData(st, headers, lines, table, curFail, cashFail, bankFail, topFail) ==
    LET baseCurrencyId == IF \E r \in table : r.is_base
                          THEN (CHOOSE r \in table : r.is_base).id ELSE ""
        cash == DashBalances(CashBooks, headers, lines, table)
        bank == DashBalances(BankBooks, headers, lines, table)
    IN IF curFail
       THEN [st EXCEPT !.error = TRUE, !.fetched = TRUE,
                       !.cashOk = FALSE, !.bankOk = FALSE, !.topOk = FALSE]
       ELSE [st EXCEPT
               !.error = FALSE, !.fetched = TRUE, !.currencyRates = table,
               !.cashOk = ~cashFail /\ cash.ok,
               !.cashBookBalances = IF ~cashFail /\ cash.ok THEN cash.rows ELSE @,
               !.bankOk = ~bankFail /\ bank.ok,
               !.bankBalances = IF ~bankFail /\ bank.ok THEN bank.rows ELSE @,
               !.topOk = ~topFail,
               !.topCommissionTransactions =
                  IF topFail THEN @
                  ELSE DashTopCommission(headers, lines, st.start, st.end, table, baseCurrencyId)]

DashEffect(st) ==
    \E table \in CurrencyTables :
    \E curFail \in BOOLEAN, cashFail \in BOOLEAN, bankFail \in BOOLEAN, topFail \in BOOLEAN :
       dash' = DashFetchData(st, gl_headers, gl_transactions, table,
                             curFail, cashFail, bankFail, topFail)

\* the component mounts
Dash_Mount ==
    /\ ~dash.fetched
    /\ DashEffect(dash)
    /\ UNCHANGED <<gl_headers, gl_transactions, gl, book, tb, be, ed, cr, zk, glFetch>>

\* the month selector
Dash_SetMonth(s, e) ==
    /\ dash.fetched
    /\ s <= e
    /\ <<s, e>> # <<dash.start, dash.end>>
    /\ DashEffect([dash EXCEPT !.start = s, !.end = e])
    /\ UNCHANGED <<gl_headers, gl_transactions, gl, book, tb, be, ed, cr, zk, glFetch>>

(***************************************************************************)
(* The report screens over a pre-existing log                              *)
(***************************************************************************)
FormsIdle ==
    /\ be = BEIdle("none", 0)
    /\ ed = EDIdle("none", 0)

InitLog ==
    \E log \in Logs :
       /\ gl_headers = {TemplateHeader(t) : t \in log}
       /\ gl_transactions = UNION {TemplateLines(t) : t \in log}

InitReports ==
    /\ InitLog
    /\ gl = GLInit
    /\ book = BookInit("cash")
    /\ tb = TBInit
    /\ FormsIdle
    /\ dash = DashInit
    /\ cr = CRInit
    /\ zk = ZKInit
    /\ glFetch = GLFetchIdle

NextGL ==
    \/ \E a \in Accounts : GL_SelectAccount(a)
    \/ \E s \in Dates, e \in Dates : GL_SetDateRange(s, e)
    \/ GL_GenerateReport

NextBook ==
    \/ \E k \in {"cash", "bank"} : Book_Open(k)
    \/ \E a \in Accounts : Book_Select(a)
    \/ \E s \in Dates, e \in Dates : Book_SetDateRange(s, e)

NextTB ==
    \/ TB_Mount
    \/ \E d \in Dates : TB_SetDate(d)

SpecGL == InitReports /\ [][NextGL]_vars

SpecBook == InitReports /\ [][NextBook]_vars

SpecTB == InitReports /\ [][NextTB]_vars

(***************************************************************************)
(* Reference quantities of the ledger, read directly off the store         *)
(***************************************************************************)
RECURSIVE NetOf(_)
NetOf(ls) ==
    IF ls = {} THEN 0
    ELSE LET l == CHOOSE x \in ls : TRUE IN (l.debit - l.credit) + NetOf(ls \ {l})

LinesOfGroup(id) == { l \in gl_transactions : l.header_id = id }

\* lines of account a whose group has a status in statusFilter and a date in lo..hi
LinesIn(a, statusFilter, lo, hi) ==
    { l \in gl_transactions :
        /\ l.account_id = a
        /\ \E h \in gl_headers : /\ h.id = l.header_id
                                 /\ h.status \in statusFilter
                                 /\ h.transaction_date >= lo
                                 /\ h.transaction_date <= hi }

\* sum of (debit - credit) over the account's posted lines dated strictly before the cutoff
RefOpening(a, cutoff) == NetOf(LinesIn(a, {"posted"}, 1, cutoff - 1))

GroupImbalance(id) == NetOf(LinesOfGroup(id))

AllGroupsBalanced == \A h \in gl_headers : GroupImbalance(h.id) = 0

GLLoaded == gl.fetched /\ gl.fetchOk

GLClosingShown == gl.totals.debit - gl.totals.credit

BookLoaded == book.fetched /\ book.fetchOk

(***************************************************************************)
(* Properties                                                              *)
(***************************************************************************)

\* C1: the closing balance a ledger report shows for [d1, d2] equals the opening balance
\* at d1 plus the sum of (debit - credit) of the account's lines dated within [d1, d2]
\* (stated for the General Ledger, whose rows are the account's lines of every header
\* of the range).
C1_OpeningPlusPeriodIsClosing ==
    GLLoaded =>
        GLClosingShown = RefOpening(gl.selectedAccount, gl.start)
                           + NetOf(LinesIn(gl.selectedAccount, Statuses, gl.start, gl.end))

\* C2: the opening balance a report computes at its cutoff is the sum of (debit - credit)
\* over the account's lines of posted groups dated strictly before the cutoff
\* (stated for the Cash Book and the Bank Book).
C2_OpeningBalanceIsSumBeforeCutoff ==
    BookLoaded => book.openingBalance.balance = RefOpening(book.selected, book.start)

\* C3: the rows of a ledger report are in ascending date order, the balance after the
\* first row is the opening balance at the range start plus that row's (debit - credit),
\* and the balance after every later row is the previous balance plus its own
\* (debit - credit) (stated for the Cash Book, whose account is kept in the base
\* currency).
C3_RunningBalanceReplaysFromOpening ==
    (BookLoaded /\ book.kind = "cash") =>
        LET rows == book.transactions IN
        /\ \A i \in 1..Len(rows) - 1 : rows[i].date <= rows[i + 1].date
        /\ \A i \in 1..Len(rows) :
              rows[i].balance =
                 (IF i = 1 THEN RefOpening(book.selected, book.start) ELSE rows[i - 1].balance)
                 + rows[i].document_amount

\* C4: two computations of the running balances of one account and one date range over
\* an unchanged log give the same sequence of rows.
C4_RunningBalancesReproducible ==
    gl.hasPrev => gl.transactions = gl.prevTransactions

\* C5: the closing balance shown is the balance after the last row, and it is the
\* opening balance unchanged when the range holds no line of the account.
C5_ClosingIsLastRunningBalance ==
    GLLoaded =>
        GLClosingShown =
           (IF gl.transactions = <<>> THEN gl.openingBalance.balance
            ELSE gl.transactions[Len(gl.transactions)].running_balance)

\* C8: over a log in which every posting group is balanced, the Trial Balance has the
\* total of its Debit column equal to the total of its Credit column.
C8_TrialBalanceColumnsEqual ==
    (AllGroupsBalanced /\ tb.fetched) =>
        TBTotals(tb.accounts).debit = TBTotals(tb.accounts).credit

C8_Witness ==
    /\ AllGroupsBalanced
    /\ tb.fetched
    /\ ~tb.error
    /\ Cardinality(tb.accounts) >= 2
    /\ TBTotals(tb.accounts).debit > 0

\* the groups whose lines the Trial Balance has summed
TBIncludedGroups ==
    { h \in gl_headers : /\ h.status \in {"draft", "posted"}
                         /\ h.transaction_date <= tb.selectedDate
                         /\ LinesOfGroup(h.id) # {} }

\* C9: a report that includes a posting group whose debit total differs from its
\* credit total signals an UnbalancedGroupError instead of producing figures from it
\* (stated for the Trial Balance; amounts are whole units, so any difference exceeds 0.01).
C9_UnbalancedGroupSignalled ==
    (tb.fetched /\ \E h \in TBIncludedGroups : GroupImbalance(h.id) # 0) => tb.error

(***************************************************************************)
(* The forms over a store that starts empty                                *)
(***************************************************************************)
InitForms ==
    /\ gl_headers = {}
    /\ gl_transactions = {}
    /\ gl = GLInit
    /\ book = BookInit("cash")
    /\ tb = TBInit
    /\ FormsIdle
    /\ dash = DashInit
    /\ cr = CRInit
    /\ zk = ZKInit
    /\ glFetch = GLFetchIdle

\* the steps of the two forms when the values entered are drawn from inputs
FormsNext(inputs) ==
    \/ \E in \in inputs : BE_Reject(in.amount)
    \/ \E in \in inputs, accountId \in FormAccounts, date \in FormDates, ok \in BOOLEAN :
          BE_InsertHeader(in.bankId, accountId, in.amount, in.rate, date, ok)
    \/ \E ok \in BOOLEAN : BE_InsertLines(ok)
    \/ \E ok \in BOOLEAN : BE_Rollback(ok)
    \/ \E h \in gl_headers : \E order \in Orders(LinesOfGroup(h.id)) : ED_Open(h.id, order)
    \/ ED_Cancel
    \/ \E in \in inputs, accountId \in FormAccounts, date \in FormDates, ok \in BOOLEAN :
          ED_UpdateHeader(in.bankId, accountId, in.amount, in.rate, date, ok)
    \/ \E ok \in BOOLEAN : ED_DeleteLines(ok)
    \/ \E ok \in BOOLEAN : ED_InsertLines(ok)

NextForms == FormsNext(FormInputs)

SpecForms == InitForms /\ [][NextForms]_vars

\* C6: after a Bank Entry creation or an Edit Bank Entry update has completed
\* successfully, the debit total of the group it wrote equals its credit total.
C6_WrittenGroupBalanced ==
    /\ be.pc = "idle" /\ be.last = "success" => GroupImbalance(be.lastId) = 0
    /\ ed.pc = "idle" /\ ed.last = "success" => GroupImbalance(ed.lastId) = 0

C6_Witness ==
    /\ ed.pc = "idle" /\ ed.last = "success"
    /\ be.pc = "idle" /\ be.last = "success"
    /\ \E l \in LinesOfGroup(ed.lastId) : l.debit > 0 /\ l.debit # l.debit_doc_currency

\* C7: in every state of the store a reader can observe, every stored posting group
\* owns at least two lines.
C7_GroupHasTwoLines ==
    \A h \in gl_headers : Cardinality(LinesOfGroup(h.id)) >= 2

\* C10: every line written by Bank Entry or Edit Bank Entry has non-negative debit and
\* credit amounts of which exactly one is zero.
C10_LineOneSided ==
    \A l \in gl_transactions :
        /\ l.debit >= 0
        /\ l.credit >= 0
        /\ (l.debit = 0) # (l.credit = 0)

(***************************************************************************)
(* Currency conversion of the lines the forms write                        *)
(***************************************************************************)
\* toBase: the amount unchanged for the base currency, amount * rate for a Multiply
\* currency, amount / rate for a Divide currency (rate # 0)
ToBase(note, amount, rate) ==
    CASE note = "multiply" -> amount * rate
      [] note = "divide" -> amount \div rate
      [] OTHER -> amount

\* C11: every line written by Bank Entry or Edit Bank Entry has
\* debit - credit = toBase(debit_doc_currency - credit_doc_currency) under the line's
\* currency and the exchange rate stored on the line (toBase has a value).
C11_LineBaseIsConvertedDoc ==
    \A l \in gl_transactions :
        LET note == ExchangeRateNote(l.currency_id) IN
        /\ ~(note = "divide" /\ l.exchange_rate = 0)
        /\ l.debit - l.credit =
              ToBase(note, l.debit_doc_currency - l.credit_doc_currency, l.exchange_rate)

\* C15: within one ledger report the opening balance and the in-range rows use the same
\* status filter, Posted only: no line of a Draft or Void group contributes to a row
\* (stated for the General Ledger: its rows are exactly the account's posted lines of
\* the range).
C15_RowsArePostedOnly ==
    GLLoaded =>
        Len(gl.transactions) =
           Cardinality(LinesIn(gl.selectedAccount, {"posted"}, gl.start, gl.end))

\* the account's net as the Trial Balance takes it: over the lines of Draft and Posted
\* groups dated on or before the selected date
TBNet(a) == NetOf(LinesIn(a, {"draft", "posted"}, 1, tb.selectedDate))

TBRowsOf(a) == { r \in tb.accounts : r.code = a }

\* C16: in the Trial Balance every account with net > 0 appears with Debit = net and
\* Credit = 0, every account with net < 0 appears with Credit = |net| and Debit = 0, and
\* no account with net = 0 appears.
C16_NetClassifiedByColumn ==
    (tb.fetched /\ ~tb.error) =>
        \A a \in ChartOfAccounts :
            /\ TBNet(a) > 0 => TBRowsOf(a) = {[code |-> a, debit |-> TBNet(a), credit |-> 0]}
            /\ TBNet(a) < 0 => TBRowsOf(a) = {[code |-> a, debit |-> 0, credit |-> 0 - TBNet(a)]}
            /\ TBNet(a) = 0 => TBRowsOf(a) = {}

C16_Witness ==
    /\ tb.fetched
    /\ ~tb.error
    /\ \E a \in ChartOfAccounts : TBNet(a) > 0 /\ TBRowsOf(a) # {}
    /\ \E a \in ChartOfAccounts : TBNet(a) < 0 /\ TBRowsOf(a) # {}
    /\ \E a \in ChartOfAccounts : TBNet(a) = 0 /\ TBAccountLines(gl_headers, gl_transactions, a, tb.selectedDate) # {}

\* C17: the Trial Balance for a date lists only active accounts, and the net of each is
\* taken over the account's lines dated on or before that date.
C17_OnlyActiveAccountsListed ==
    (tb.fetched /\ ~tb.error) =>
        /\ \A r \in tb.accounts : r.code \in Accounts
        /\ \A a \in Accounts : \A r \in TBRowsOf(a) : r.debit - r.credit = TBNet(a)

\* C23: if a step of an Edit Bank Entry submission fails (header update, deletion of the
\* old lines, insertion of the new lines), the group's header and lines are left exactly
\* as they were before the submission.
C23_FailedEditLeavesGroup ==
    (ed.pc = "form" /\ ed.last = "failed") => ~ed.touched

\* C24: when the insertion of the two lines of a Bank Entry fails, the header inserted
\* by that submission is removed: once the failed submission is over, the store holds
\* no header with the id that submission created.
C24_FailedCreationLeavesNoHeader ==
    (be.pc = "idle" /\ be.last = "failed" /\ be.lastId # 0)
        => ~\E h \in gl_headers : h.id = be.lastId

\* C26: an existing bank entry that is opened in the edit form and saved with no field
\* changed keeps its lines: the lines the submission writes for the form as it was
\* filled are on the same accounts and the same sides, with the same base and document
\* amounts, as the lines stored.
C26_UnchangedSaveKeepsLines ==
    (ed.pc = "form" /\ ed.last = "none" /\ LinesOfGroup(ed.id) # {})
        => LET cols == {"account_id", "debit", "credit",
                        "debit_doc_currency", "credit_doc_currency"}
               saved == EDGlTransactions(ed.id, ed.bankId, ed.accountId,
                                         ed.amount, ed.rate, 0, 0)
           IN { Project(l, cols) : l \in saved }
                 = { Project(l, cols) : l \in LinesOfGroup(ed.id) }

(***************************************************************************)
(* The Dashboard over a pre-existing log                                   *)
(***************************************************************************)
InitDash ==
    /\ \E log \in SubsetsUpTo(DTemplates, NumGroups) :
          /\ gl_headers = {CTemplateHeader(t) : t \in log}
          /\ gl_transactions = UNION {CTemplateLines(t) : t \in log}
    /\ gl = GLInit
    /\ book = BookInit("cash")
    /\ tb = TBInit
    /\ dash = DashInit
    /\ cr = CRInit
    /\ zk = ZKInit
    /\ glFetch = GLFetchIdle
    /\ FormsIdle

NextDash ==
    \/ Dash_Mount
    \/ \E s \in Dates, e \in Dates : Dash_SetMonth(s, e)

SpecDash == InitDash /\ [][NextDash]_vars

\* the row of the loaded currency table joined to an account
DashCurrencyOf(a) == { r \in dash.currencyRates : r.id = AccountCurrency(a) }

\* C12: converting with a Divide currency whose rate is 0 ends in an explicit error: no
\* balance is displayed from a result of 0, infinity or a substituted rate (stated for
\* the balances of the Dashboard).
C12_DivideByZeroIsError ==
    (dash.fetched /\ ~dash.error /\ dash.bankOk) =>
        \A b \in dash.bankBalances :
            \A r \in DashCurrencyOf(b.cashbook_name) :
                ~(r.exchange_rate_note = "divide" /\ r.rate = 0)

\* C13: when a line refers to a currency that is absent from the loaded currency data,
\* the computation reports an error instead of continuing with the amount taken 1:1
\* (stated for the top-commission list of the Dashboard).
C13_MissingCurrencyIsError ==
    (dash.fetched /\ dash.topOk) =>
        \A r \in dash.topCommissionTransactions :
            \A l \in LinesOfGroup(r.id) :
                l.account_id = CommissionAccount =>
                    \E c \in dash.currencyRates : c.id = l.currency_id

\* C19: for the posted group with customer debit 1000, supplier credit 975 and
\* commission credit 25 the commission extraction reports commission 25 and customer
\* amount 1000 (stated for the top-commission list of the Dashboard).
C19_CustomerAmountIsFullDebit ==
    (dash.fetched /\ dash.topOk) =>
        \A r \in dash.topCommissionTransactions :
            (\E l \in LinesOfGroup(r.id) : l.account_id = "cust" /\ l.debit = 1000) =>
                (r.commission = 25 /\ r.amount = 1000)

\* C21: changing a currency's rate after lines have been posted does not change a balance
\* figure derived from the stored lines: over an unchanged store, two successive loads of
\* the Dashboard show the same bank balances whatever the (positive) rates in table
\* currencies.
C21_RateEditKeepsBalances ==
    [][(/\ dash.fetched /\ ~dash.error /\ dash.bankOk /\ ~dash'.error /\ dash'.bankOk
        /\ \A r \in dash.currencyRates \cup dash'.currencyRates : r.rate > 0)
          => dash'.bankBalances = dash.bankBalances]_vars

(***************************************************************************)
(* The Commission report over a pre-existing log                           *)
(***************************************************************************)
InitCR ==
    /\ \E log \in SubsetsUpTo(CTemplates, NumGroups) :
          /\ gl_headers = {CTemplateHeader(t) : t \in log}
          /\ gl_transactions = UNION {CTemplateLines(t) : t \in log}
    /\ gl = GLInit
    /\ book = BookInit("cash")
    /\ tb = TBInit
    /\ dash = DashInit
    /\ cr = CRInit
    /\ zk = ZKInit
    /\ glFetch = GLFetchIdle
    /\ FormsIdle

NextCR ==
    \/ CR_Mount
    \/ \E s \in Dates, e \in Dates : CR_SetDateRange(s, e)
    \/ \E c \in TypeCodes \cup {"all"} : CR_SetTransactionType(c)
    \/ \E p \in {"all", "cust", "supp"} : CR_SetSelectedPartner(p)

SpecCR == InitCR /\ [][NextCR]_vars

\* the posted groups of the report's range whose type is among the codes asked for and
\* that hold a commission-account line and a customer line
CRQualifyingGroups ==
    { h \in gl_headers :
        /\ h.status = "posted"
        /\ h.transaction_date >= cr.start /\ h.transaction_date <= cr.end
        /\ h.type_code \in CRRequestedCodes(cr.fetchedType)
        /\ \E l \in LinesOfGroup(h.id) : l.account_id = CommissionAccount
        /\ \E l \in LinesOfGroup(h.id) : l.debit > 0 /\ l.account_id # CommissionAccount }

\* C18: the Commission report has exactly one row for each Posted group of the date range
\* whose type code is among the requested codes and which holds a commission-account line
\* and a customer line, and no row for any other group; a group without those lines is
\* left out without an error (stated for the rows fetchTransactions extracts, which are
\* the rows displayed while the selectors stand as they stood at the fetch).
C18_OneRowPerQualifyingGroup ==
    (cr.fetched /\ cr.fetchOk) =>
        /\ { r.id : r \in cr.allTransactions } = { h.id : h \in CRQualifyingGroups }
        /\ Cardinality(cr.allTransactions) = Cardinality(CRQualifyingGroups)
        /\ (cr.transactionType = cr.fetchedType /\ cr.selectedPartner = "all") =>
              cr.filteredTransactions = cr.allTransactions

C18_Witness ==
    /\ cr.fetched
    /\ cr.fetchOk
    /\ cr.allTransactions # {}
    /\ cr.filteredTransactions = cr.allTransactions
    /\ \E h \in gl_headers :
          /\ h.status = "posted"
          /\ h.transaction_date >= cr.start /\ h.transaction_date <= cr.end
          /\ h.type_code \in CRRequestedCodes(cr.fetchedType)
          /\ h \notin CRQualifyingGroups

\* C28: whenever the General Ledger lets a print, Excel or PDF export proceed (the
\* report counts as generated), the rows exported are those of a successfully loaded
\* report for the account and the date range currently selected.
C28_ExportOnlyOfLoadedReport ==
    gl.isReportGenerated =>
        /\ GLLoaded
        /\ \E order \in Orders(GLTransactionData(gl_transactions,
                                    GLHeaderData(gl_headers, gl.start, gl.end),
                                    gl.selectedAccount)) :
              gl.transactions =
                 GLFormatted(gl_headers, order,
                             GLOpeningBalance(gl_headers, gl_transactions,
                                              gl.selectedAccount, gl.start).balance)

\* C29: whenever a Cash Book or Bank Book report has finished loading without an error
\* message and its totals row is rendered (there are rows, or openingBalance[0]?.balance
\* is not 0), the debit and credit totals of that row are the sums of the debit and
\* credit of the rows shown: zero when the range has no rows, whichever report was
\* loaded before.
C29_TotalsAreSumsOfRows ==
    (/\ book.fetched /\ ~book.error
     /\ \/ book.transactions # <<>>
        \/ ~book.openingBalance.set
        \/ book.openingBalance.balance # 0) =>
        /\ book.totals.debit = SumSeq(book.transactions, "debit")
        /\ book.totals.credit = SumSeq(book.transactions, "credit")

\* C30: for every account and every log, the edge function and the database function
\* get_cash_book_doc_balance return the same per-currency balances (stated over the
\* logs the Dashboard is run on, with a currencies table that holds every currency the
\* lines refer to).
C30_EdgeAndDatabaseAgree ==
    dash.fetched =>
        \A table \in CurrencyTables :
            ({ l.currency_id : l \in gl_transactions } \subseteq { c.id : c \in table }) =>
                \A a \in { l.account_id : l \in gl_transactions } :
                    DocBalances(gl_transactions, a)
                       = GetCashBookDocBalance(gl_headers, gl_transactions, table, a)

\* the Cash Book with the answers of the store arriving one by one
NextBookFetch ==
    \/ \E a \in Accounts, s \in Dates, e \in Dates : Book_StartFetch(a, s, e)
    \/ \E f \in book.pending, fail \in BOOLEAN :
          \E order \in {<<>>} \cup Orders(BookTransactionData(gl_transactions,
                                    BookHeaders(gl_headers, f.start, f.end), f.selected)) :
             Book_FetchAnswer(f, order, fail)

SpecBookFetch == InitReports /\ [][NextBookFetch]_vars

\* C25: when the book or the date range is changed while an earlier call of
\* fetchTransactions is still waiting, then once every call has returned (none of them
\* with an error) the opening balance, the rows, the totals and the closing balance
\* displayed are those fetchTransactions gives for the latest selection, in whatever
\* order the answers arrived.
C25_LatestSelectionDisplayed ==
    (book.pending = {} /\ book.fetched /\ book.fetchOk) =>
        \E order \in Orders(BookTransactionData(gl_transactions,
                                BookHeaders(gl_headers, book.start, book.end),
                                book.selected)) :
           LET one == BookFetchTransactions(book, gl_headers, gl_transactions, order,
                                            FALSE, FALSE, FALSE)
           IN /\ one.openingBalance = book.openingBalance
              /\ one.transactions = book.transactions
              /\ one.totals = book.totals
              /\ one.closingBalance = book.closingBalance

\* C27: after any sequence of date-range, type and partner selections, once a load has
\* succeeded the rows displayed are exactly the qualifying groups of the current date
\* range whose type is the selected one (any of the four codes under 'all') and whose
\* customer or supplier is the selected partner (any under 'all').
C27_RowsMatchSelections ==
    (cr.fetched /\ cr.fetchOk) =>
        { r.id : r \in cr.filteredTransactions }
           = { h.id : h \in
                 { g \in gl_headers :
                     /\ g.status = "posted"
                     /\ g.transaction_date >= cr.start /\ g.transaction_date <= cr.end
                     /\ g.type_code \in CRRequestedCodes(cr.transactionType)
                     /\ \E l \in LinesOfGroup(g.id) : l.account_id = CommissionAccount
                     /\ \E l \in LinesOfGroup(g.id) :
                           l.debit > 0 /\ l.account_id # CommissionAccount
                     /\ \/ cr.selectedPartner = "all"
                        \/ \E l \in LinesOfGroup(g.id) :
                              /\ l.account_id = cr.selectedPartner
                              /\ l.debit > 0 \/ l.credit > 0 } }

(***************************************************************************)
(* The Zakat calculation over a pre-existing log                           *)
(***************************************************************************)
NextZakat ==
    \/ ZK_Mount
    \/ \E d \in Dates : ZK_SetSelectedDate(d)
    \/ \E t \in SearchTerms : ZK_SetSearchTerm(t)

SpecZakat == InitReports /\ [][NextZakat]_vars

\* C20: the zakat payable shown for a date is 0.025 times the sum, over all
\* zakat-eligible accounts, of the account's balance from Posted lines dated on or before
\* that date, whatever the search text (amounts in thousandths of a unit).
C20_ZakatIsFortiethOfEligibleBalances ==
    (zk.fetched /\ ~zk.error /\ zk.linesOk) =>
        ZKZakatAmount(zk) =
           25 * SumOf({ [code |-> a, balance |-> NetOf(LinesIn(a, {"posted"}, 1, zk.selectedDate))] :
                          a \in ZakatEligible }, "balance")

(***************************************************************************)
(* The report routes, one of them mounted at a time, over a store of one   *)
(* posting group                                                           *)
(***************************************************************************)
InitOneReport ==
    /\ \/ \E t \in Templates : /\ gl_headers = {TemplateHeader(t)}
                               /\ gl_transactions = TemplateLines(t)
       \/ \E t \in CTemplates : /\ gl_headers = {CTemplateHeader(t)}
                                /\ gl_transactions = CTemplateLines(t)
    /\ gl = GLInit
    /\ book = BookInit("cash")
    /\ tb = TBInit
    /\ dash = DashInit
    /\ cr = CRInit
    /\ zk = ZKInit
    /\ glFetch = GLFetchIdle
    /\ FormsIdle

\* no other report than the i-th has been used since it was left: the other components
\* are as they are before their route is visited
OnlyPage(i) ==
    LET pages == <<gl, book, tb, cr, zk>>
        unvisited == <<GLInit, BookInit("cash"), TBInit, CRInit, ZKInit>>
    IN \A j \in (1..5) \ {i} : pages[j] = unvisited[j]

NextOneReport ==
    \/ OnlyPage(1) /\ NextGL
    \/ OnlyPage(2) /\ NextBook
    \/ OnlyPage(3) /\ NextTB
    \/ OnlyPage(4) /\ NextCR
    \/ OnlyPage(5) /\ NextZakat

SpecOneReport == InitOneReport /\ [][NextOneReport]_vars

\* C22: no report computation (Cash Book, Bank Book, General Ledger, Trial Balance,
\* Commission, Zakat) inserts, updates or deletes a posting group or a line: the store is
\* the same before and after every step of a report.
C22_ReportsLeaveStoreAlone ==
    [][(gl' # gl \/ book' # book \/ tb' # tb \/ cr' # cr \/ zk' # zk)
          => (gl_headers' = gl_headers /\ gl_transactions' = gl_transactions)]_vars

C22_Witness ==
    /\ gl_headers # {}
    /\ gl_transactions # {}
    /\ tb.fetched
    /\ ~tb.error
    /\ tb.accounts # {}

(***************************************************************************)
(* A General Ledger report fetched while the forms write the store         *)
(***************************************************************************)
NextGLFetch ==
    \/ \E s \in Dates, e \in Dates : GLF_Start("exp", s, e)
    \/ GLF_OpeningBalance
    \/ GLF_Headers
    \/ \E order \in Orders(GLTransactionData(gl_transactions, glFetch.headerData,
                                             glFetch.selectedAccount)) :
          GLF_Transactions(order)

\* the values entered in the forms while the report is fetched
ConcurrentInputs ==
    { [bankId |-> "bankA", amount |-> 2, rate |-> 1],
      [bankId |-> "bankU", amount |-> 0, rate |-> 2] }

NextConcurrent == FormsNext(ConcurrentInputs) \/ NextGLFetch

SpecConcurrent == InitForms /\ [][NextConcurrent]_vars

\* what the report shows when it is computed over the one state st of the store
GLReportOver(st, order) ==
    GLFetchTransactions([GLInit EXCEPT !.selectedAccount = glFetch.selectedAccount,
                                       !.start = glFetch.start, !.end = glFetch.end],
                        st.headers, st.lines, order, FALSE, FALSE, FALSE)

\* C14: a ledger report computed while a bank entry is being created or edited shows an
\* opening balance, rows and a closing balance that all belong to one single state of
\* the log: one of the states the store went through while the report was fetched.
C14_ReportOverOneState ==
    glFetch.pc = "done" =>
        \E st \in glFetch.seen :
           \E order \in Orders(GLTransactionData(st.lines,
                                   GLHeaderData(st.headers, glFetch.start, glFetch.end),
                                   glFetch.selectedAccount)) :
              LET one == GLReportOver(st, order) IN
              /\ one.openingBalance = glFetch.openingBalance
              /\ one.transactions = glFetch.transactions
              /\ one.totals = glFetch.totals

(***************************************************************************)
(* The whole application: the forms write the store, the reports read it   *)
(***************************************************************************)
Init == InitForms

Next ==
    NextForms \/ NextGL \/ NextBook \/ NextTB \/ NextDash \/ NextCR \/ NextZakat
       \/ NextGLFetch \/ NextBookFetch

Spec == Init /\ [][Next]_vars
====
